---- MODULE Spec2Model ----
(***************************************************************************)
(* LocalLocker (crates/lock/src/local_locker.rs): the single-node lock     *)
(* table of rustfs.  lock_map maps a resource name to its holder records,  *)
(* lock_uid maps the string uid ++ decimal(idx) to a resource name.        *)
(* Every Locker method is one atomic step.  In place of the Instant        *)
(* time_last_refresh a record carries its age, Instant::now() minus        *)
(* time_last_refresh in clock ticks, saturated at AgeCap, which is above   *)
(* every interval the sweep is called with; Tick is one tick of the clock. *)
(***************************************************************************)
EXTENDS Integers, Sequences, FiniteSets, TLC

VARIABLES lock_map, lock_uid, last

vars == <<lock_map, lock_uid, last>>

(***************************************************************************)
(* Bounds of the model and the sets the arguments are drawn from.          *)
(***************************************************************************)
MaxReaders == 2

MAX_DELETE_LIST == 1000

Resources == {"a", "b"}
\* The requesters that acquire: a uid and the owner it acquires for.
Requesters == {[uid |-> "1", owner |-> "x"], [uid |-> "2", owner |-> "y"]}
Uids == {r.uid : r \in Requesters}
\* The owner filters of the release calls.
Owners == {"", "x"}
Quorums == {3}
Intervals == {0}
AgeCap == (CHOOSE i \in Intervals : \A j \in Intervals : j <= i) + 1

\* Batches of at most two names, one of them naming a resource twice, and one
\* batch that is longer than MAX_DELETE_LIST.
SmallBatches == {<<>>, <<"a">>, <<"b">>, <<"a", "b">>}
OversizeBatch == [i \in 1..(MAX_DELETE_LIST + 1) |-> "a"] \o <<>>
Batches == SmallBatches \cup {<<"a", "a">>, OversizeBatch}

(***************************************************************************)
(* HashMap helpers.                                                        *)
(***************************************************************************)
EmptyMap == [k \in {} |-> ""]
MapPut(m, k, v) == [x \in (DOMAIN m) \cup {k} |-> IF x = k THEN v ELSE m[x]]
MapDel(m, k) == [x \in (DOMAIN m) \ {k} |-> m[x]]

(***************************************************************************)
(* The program's pure helpers.                                             *)
(***************************************************************************)
\* time_stamp and time_last_refresh are Instant::now() in every record the
\* program builds: the age is 0.
LockRequesterInfo(name, writer, uid, owner, group, quorum, idx) ==
    [name |-> name, writer |-> writer, uid |-> uid, owner |-> owner,
     group |-> group, quorum |-> quorum, idx |-> idx, age |-> 0]

LockArgs(resources, uid, owner, quorum) ==
    [resources |-> resources, uid |-> uid, owner |-> owner, quorum |-> quorum]

format_uuid(s, idx) == s \o ToString(idx)

\* is_write_lock with the writer flag read the wrong way round.
is_write_lock_negated(lri) == Len(lri) = 1 /\ ~lri[1].writer

is_write_lock(lri) == Len(lri) = 1 /\ lri[1].writer

\* can_take_lock looking at the first resource of the batch only.
can_take_lock_first(m, resource) ==
    resource = <<>> \/ resource[1] \notin DOMAIN m

can_take_lock(m, resource) ==
    \A i \in 1..Len(resource) : resource[i] \notin DOMAIN m

\* The closure of the retain calls of unlock, runlock and force_unlock.
\* Matching on the uid alone, whatever owner the call names.
release_match_uid_only(lri, args) == lri.uid = args.uid

release_match(lri, args) ==
    lri.uid = args.uid /\ (args.owner = "" \/ lri.owner = args.owner)

(***************************************************************************)
(* lock: all-or-nothing exclusive acquisition of a batch.                  *)
(***************************************************************************)
RECURSIVE lock_loop(_, _, _)
lock_loop(args, i, st) ==
    IF i > Len(args.resources) THEN st
    ELSE LET resource == args.resources[i]
             idx == i - 1
             lri == LockRequesterInfo(resource, TRUE, args.uid, args.owner,
                                      Len(args.resources) > 1, args.quorum, idx)
         IN lock_loop(args, i + 1,
                      [lock_map |-> MapPut(st.lock_map, resource, <<lri>>),
                       lock_uid |-> MapPut(st.lock_uid, format_uuid(args.uid, idx), resource)])

lock(m, u, args) ==
    IF Len(args.resources) > MAX_DELETE_LIST
    THEN [lock_map |-> m, lock_uid |-> u, ret |-> "err"]
    ELSE IF ~can_take_lock(m, args.resources)
    THEN [lock_map |-> m, lock_uid |-> u, ret |-> "false"]
    ELSE LET st == lock_loop(args, 1, [lock_map |-> m, lock_uid |-> u])
         IN [lock_map |-> st.lock_map, lock_uid |-> st.lock_uid, ret |-> "true"]

(***************************************************************************)
(* unlock: release of an exclusive batch.  The retain closure unwraps the  *)
(* removal of the reverse-index key, which panics when the key is absent;  *)
(* Vec::retain then keeps the element at hand and everything after it.     *)
(***************************************************************************)
RECURSIVE release_retain(_, _, _, _)
release_retain(lris, i, st, args) ==
    IF i > Len(lris) THEN st
    ELSE IF release_match(lris[i], args)
    THEN LET key == format_uuid(args.uid, lris[i].idx)
         IN IF key \in DOMAIN st.lock_uid
            THEN release_retain(lris, i + 1,
                                [st EXCEPT !.lock_uid = MapDel(@, key), !.reply = TRUE],
                                args)
            ELSE [st EXCEPT !.kept = @ \o SubSeq(lris, i, Len(lris)), !.panic = TRUE]
    ELSE release_retain(lris, i + 1, [st EXCEPT !.kept = Append(@, lris[i])], args)

RECURSIVE unlock_loop(_, _, _)
unlock_loop(args, i, st) ==
    IF i > Len(args.resources) \/ st.panic THEN st
    ELSE LET resource == args.resources[i]
         IN IF resource \notin DOMAIN st.lock_map
            THEN unlock_loop(args, i + 1, st)
            ELSE LET lris == st.lock_map[resource]
                 IN IF ~is_write_lock(lris)
                    THEN unlock_loop(args, i + 1,
                             [st EXCEPT !.err_info = Append(@, resource),
                                        !.lock_map = IF lris = <<>> THEN MapDel(@, resource)
                                                     ELSE @])
                    ELSE LET r == release_retain(lris, 1,
                                      [kept |-> <<>>, lock_uid |-> st.lock_uid,
                                       reply |-> st.reply, panic |-> FALSE], args)
                         IN unlock_loop(args, i + 1,
                                [st EXCEPT !.lock_uid = r.lock_uid,
                                           !.reply = r.reply,
                                           !.panic = r.panic,
                                           !.lock_map = IF r.kept = <<>> /\ ~r.panic
                                                        THEN MapDel(@, resource)
                                                        ELSE MapPut(@, resource, r.kept)])

unlock(m, u, args) ==
    IF Len(args.resources) > MAX_DELETE_LIST
    THEN [lock_map |-> m, lock_uid |-> u, ret |-> "err", err_info |-> <<>>]
    ELSE LET st == unlock_loop(args, 1, [lock_map |-> m, lock_uid |-> u, reply |-> FALSE,
                                          err_info |-> <<>>, panic |-> FALSE])
         IN [lock_map |-> st.lock_map, lock_uid |-> st.lock_uid,
             ret |-> IF st.panic THEN "panic" ELSE IF st.reply THEN "true" ELSE "false",
             err_info |-> st.err_info]

(***************************************************************************)
(* rlock / runlock: shared acquisition and release of one resource.        *)
(***************************************************************************)
\* rlock inserting the new reader's Vec over the readers already there.
rlock_replaces(m, u, args) ==
    IF Len(args.resources) # 1
    THEN [lock_map |-> m, lock_uid |-> u, ret |-> "err"]
    ELSE LET resource == args.resources[1]
             lri == LockRequesterInfo(resource, FALSE, args.uid, args.owner,
                                      FALSE, args.quorum, 0)
         IN IF resource \in DOMAIN m /\ is_write_lock(m[resource])
            THEN [lock_map |-> m, lock_uid |-> u, ret |-> "false"]
            ELSE [lock_map |-> MapPut(m, resource, <<lri>>),
                  lock_uid |-> MapPut(u, format_uuid(args.uid, 0), resource),
                  ret |-> "true"]

rlock(m, u, args) ==
    IF Len(args.resources) # 1
    THEN [lock_map |-> m, lock_uid |-> u, ret |-> "err"]
    ELSE LET resource == args.resources[1]
             lri == LockRequesterInfo(resource, FALSE, args.uid, args.owner,
                                      FALSE, args.quorum, 0)
         IN IF resource \in DOMAIN m /\ is_write_lock(m[resource])
            THEN [lock_map |-> m, lock_uid |-> u, ret |-> "false"]
            ELSE [lock_map |-> MapPut(m, resource,
                                      IF resource \in DOMAIN m THEN Append(m[resource], lri)
                                      ELSE <<lri>>),
                  lock_uid |-> MapPut(u, format_uuid(args.uid, 0), resource),
                  ret |-> "true"]

\* runlock without the refusal of an exclusively held resource.
runlock_any_holder(m, u, args) ==
    IF Len(args.resources) # 1
    THEN [lock_map |-> m, lock_uid |-> u, ret |-> "err"]
    ELSE LET resource == args.resources[1]
         IN IF resource \notin DOMAIN m
            THEN [lock_map |-> m, lock_uid |-> u, ret |-> "false"]
            ELSE LET r == release_retain(m[resource], 1,
                              [kept |-> <<>>, lock_uid |-> u, reply |-> FALSE,
                               panic |-> FALSE], args)
                 IN [lock_map |-> IF r.kept = <<>> /\ ~r.panic THEN MapDel(m, resource)
                                  ELSE MapPut(m, resource, r.kept),
                     lock_uid |-> r.lock_uid,
                     ret |-> IF r.panic THEN "panic"
                             ELSE IF r.reply THEN "true" ELSE "false"]

runlock(m, u, args) ==
    IF Len(args.resources) # 1
    THEN [lock_map |-> m, lock_uid |-> u, ret |-> "err"]
    ELSE LET resource == args.resources[1]
         IN IF resource \notin DOMAIN m
            THEN [lock_map |-> m, lock_uid |-> u, ret |-> "false"]
            ELSE IF is_write_lock(m[resource])
            THEN [lock_map |-> m, lock_uid |-> u, ret |-> "err"]
            ELSE LET r == release_retain(m[resource], 1,
                              [kept |-> <<>>, lock_uid |-> u, reply |-> FALSE,
                               panic |-> FALSE], args)
                 IN [lock_map |-> IF r.kept = <<>> /\ ~r.panic THEN MapDel(m, resource)
                                  ELSE MapPut(m, resource, r.kept),
                     lock_uid |-> r.lock_uid,
                     ret |-> IF r.panic THEN "panic"
                             ELSE IF r.reply THEN "true" ELSE "false"]

(***************************************************************************)
(* refresh: walks the keys uid0, uid1, ... of the reverse index.           *)
(***************************************************************************)
RECURSIVE refresh_loop(_, _, _, _, _)
refresh_loop(m, u, uid, idx, resource) ==
    IF resource \notin DOMAIN m
    THEN [lock_uid |-> MapDel(u, format_uuid(uid, 0)),
          ret |-> IF idx > 0 THEN "true" ELSE "false"]
    ELSE LET key == format_uuid(uid, idx + 1)
         IN IF key \in DOMAIN u
            THEN refresh_loop(m, u, uid, idx + 1, u[key])
            ELSE [lock_uid |-> u, ret |-> "true"]

\* refresh stamping the records of the uid as refreshed now.
refresh_touches(m, u, args) ==
    LET key == format_uuid(args.uid, 0)
        touched == [r \in DOMAIN m |->
                       [j \in 1..Len(m[r]) |->
                           IF m[r][j].uid = args.uid THEN [m[r][j] EXCEPT !.age = 0]
                           ELSE m[r][j]]]
    IN IF key \in DOMAIN u
       THEN LET r == refresh_loop(m, u, args.uid, 0, u[key])
            IN [lock_map |-> touched, lock_uid |-> r.lock_uid, ret |-> r.ret]
       ELSE [lock_map |-> m, lock_uid |-> u, ret |-> "false"]

refresh(m, u, args) ==
    LET key == format_uuid(args.uid, 0)
    IN IF key \in DOMAIN u
       THEN LET r == refresh_loop(m, u, args.uid, 0, u[key])
            IN [lock_map |-> m, lock_uid |-> r.lock_uid, ret |-> r.ret]
       ELSE [lock_map |-> m, lock_uid |-> u, ret |-> "false"]

(***************************************************************************)
(* force_unlock: unconditional (empty uid) and targeted mode.              *)
(***************************************************************************)
RECURSIVE force_unlock_all(_, _, _)
force_unlock_all(resources, i, st) ==
    IF i > Len(resources) THEN st
    ELSE LET resource == resources[i]
         IN IF resource \notin DOMAIN st.lock_map
            THEN force_unlock_all(resources, i + 1, st)
            ELSE LET lris == st.lock_map[resource]
                     keys == {format_uuid(lris[j].uid, lris[j].idx) : j \in 1..Len(lris)}
                 IN force_unlock_all(resources, i + 1,
                        [lock_map |-> IF lris = <<>> THEN MapDel(st.lock_map, resource)
                                      ELSE st.lock_map,
                         lock_uid |-> [k \in (DOMAIN st.lock_uid) \ keys |-> st.lock_uid[k]]])

RECURSIVE force_unlock_walk(_, _, _)
force_unlock_walk(args, idx, st) ==
    LET map_id == format_uuid(args.uid, idx)
    IN IF map_id \notin DOMAIN st.lock_uid
       THEN [st EXCEPT !.reply = idx > 0]
       ELSE LET resource == st.lock_uid[map_id]
            IN IF resource \notin DOMAIN st.lock_map
               THEN force_unlock_walk(args, idx + 1,
                        [st EXCEPT !.need_remove_map_id = @ \cup {map_id}])
               ELSE LET lris == st.lock_map[resource]
                        kept == SelectSeq(lris, LAMBDA lri : ~release_match(lri, args))
                        keys == {format_uuid(args.uid, lris[j].idx) :
                                    j \in {k \in 1..Len(lris) : release_match(lris[k], args)}}
                    IN force_unlock_walk(args, idx + 1,
                           [st EXCEPT !.lock_map = MapPut(@, resource, kept),
                                      !.need_remove_map_id = @ \cup keys,
                                      !.need_remove_resource =
                                          IF kept = <<>> THEN @ \cup {resource} ELSE @])

\* force_unlock whose empty-uid mode reports whether it removed anything.
force_unlock_reports_change(m, u, args) ==
    IF args.uid = ""
    THEN LET st == force_unlock_all(args.resources, 1, [lock_map |-> m, lock_uid |-> u])
         IN [lock_map |-> st.lock_map, lock_uid |-> st.lock_uid,
             ret |-> IF st.lock_map # m \/ st.lock_uid # u THEN "true" ELSE "false"]
    ELSE LET st == force_unlock_walk(args, 0,
                       [lock_map |-> m, lock_uid |-> u, reply |-> FALSE,
                        need_remove_resource |-> {}, need_remove_map_id |-> {}])
         IN [lock_map |-> [k \in (DOMAIN st.lock_map) \ st.need_remove_resource |->
                              st.lock_map[k]],
             lock_uid |-> [k \in (DOMAIN u) \ st.need_remove_map_id |-> u[k]],
             ret |-> IF st.reply THEN "true" ELSE "false"]

force_unlock(m, u, args) ==
    IF args.uid = ""
    THEN LET st == force_unlock_all(args.resources, 1, [lock_map |-> m, lock_uid |-> u])
         IN [lock_map |-> st.lock_map, lock_uid |-> st.lock_uid, ret |-> "true"]
    ELSE LET st == force_unlock_walk(args, 0,
                       [lock_map |-> m, lock_uid |-> u, reply |-> FALSE,
                        need_remove_resource |-> {}, need_remove_map_id |-> {}])
         IN [lock_map |-> [k \in (DOMAIN st.lock_map) \ st.need_remove_resource |->
                              st.lock_map[k]],
             lock_uid |-> [k \in (DOMAIN u) \ st.need_remove_map_id |-> u[k]],
             ret |-> IF st.reply THEN "true" ELSE "false"]

(***************************************************************************)
(* expire_old_locks: the staleness sweep.                                  *)
(***************************************************************************)
\* Expiry already at the interval itself.
expired_at_interval(lri, interval) == lri.age >= interval

expired(lri, interval) == lri.age > interval

expire_old_locks(m, u, interval) ==
    LET keys == UNION {{format_uuid(m[r][j].uid, m[r][j].idx) :
                           j \in {k \in 1..Len(m[r]) : expired(m[r][k], interval)}} :
                       r \in DOMAIN m}
    IN [lock_map |-> [r \in DOMAIN m |->
                         SelectSeq(m[r], LAMBDA lri : ~expired(lri, interval))],
        lock_uid |-> [k \in (DOMAIN u) \ keys |-> u[k]]]

(***************************************************************************)
(* State machine: one action per Locker method, each a whole call.  last   *)
(* records which method was called last and what it returned.              *)
(***************************************************************************)
NoCall == [op |-> "new", ret |-> "none"]

Call(op, ret) == [op |-> op, ret |-> ret]

\* A panic unwinds out of the call; nothing is modelled after it.
Running == last.ret # "panic"

Init ==
    /\ lock_map = EmptyMap
    /\ lock_uid = EmptyMap
    /\ last = NoCall

LockCall(args) ==
    LET r == lock(lock_map, lock_uid, args)
    IN /\ Running
       /\ lock_map' = r.lock_map
       /\ lock_uid' = r.lock_uid
       /\ last' = Call("lock", r.ret)

UnlockCall(args) ==
    LET r == unlock(lock_map, lock_uid, args)
    IN /\ Running
       /\ lock_map' = r.lock_map
       /\ lock_uid' = r.lock_uid
       /\ last' = Call("unlock", r.ret)

\* The number of reader records in the table; the guard of RLockCall keeps it
\* finite.
RECURSIVE SumLen(_, _)
SumLen(m, ks) ==
    IF ks = {} THEN 0
    ELSE LET k == CHOOSE x \in ks : TRUE
         IN Len(SelectSeq(m[k], LAMBDA lri : ~lri.writer)) + SumLen(m, ks \ {k})

Readers(m) == SumLen(m, DOMAIN m)

RLockCall(args) ==
    LET r == rlock(lock_map, lock_uid, args)
    IN /\ Running
       /\ Readers(r.lock_map) <= MaxReaders
       /\ lock_map' = r.lock_map
       /\ lock_uid' = r.lock_uid
       /\ last' = Call("rlock", r.ret)

RUnlockCall(args) ==
    LET r == runlock(lock_map, lock_uid, args)
    IN /\ Running
       /\ lock_map' = r.lock_map
       /\ lock_uid' = r.lock_uid
       /\ last' = Call("runlock", r.ret)

RefreshCall(args) ==
    LET r == refresh(lock_map, lock_uid, args)
    IN /\ Running
       /\ lock_map' = r.lock_map
       /\ lock_uid' = r.lock_uid
       /\ last' = Call("refresh", r.ret)

ForceUnlockCall(args) ==
    LET r == force_unlock(lock_map, lock_uid, args)
    IN /\ Running
       /\ lock_map' = r.lock_map
       /\ lock_uid' = r.lock_uid
       /\ last' = Call("force_unlock", r.ret)

ExpireCall(interval) ==
    LET r == expire_old_locks(lock_map, lock_uid, interval)
    IN /\ Running
       /\ lock_map' = r.lock_map
       /\ lock_uid' = r.lock_uid
       /\ last' = Call("expire", "unit")

\* The arguments of the calls: acquisitions by the requesters, releases with
\* every uid and owner filter.
AcquireArgs ==
    {LockArgs(rs, rq.uid, rq.owner, q) : rs \in Batches, rq \in Requesters, q \in Quorums}
ReleaseArgs == {LockArgs(rs, uid, owner, 0) : rs \in Batches, uid \in Uids, owner \in Owners}
RAcquireArgs ==
    {LockArgs(rs, rq.uid, rq.owner, q) : rs \in SmallBatches, rq \in Requesters, q \in Quorums}
RReleaseArgs ==
    {LockArgs(rs, uid, owner, 0) : rs \in SmallBatches, uid \in Uids, owner \in Owners}
RefreshArgs == {LockArgs(<<>>, uid, "", 0) : uid \in Uids}
\* Unconditional mode reads the resources alone, targeted mode the uid and
\* the owner alone.
ForceAllArgs == {LockArgs(rs, "", "", 0) : rs \in SmallBatches}
ForceUidArgs == {LockArgs(<<>>, uid, owner, 0) : uid \in Uids, owner \in Owners}

Lock == \E args \in AcquireArgs : LockCall(args)

Unlock == \E args \in ReleaseArgs : UnlockCall(args)

RLock == \E args \in RAcquireArgs : RLockCall(args)

RUnlock == \E args \in RReleaseArgs : RUnlockCall(args)

Refresh == \E args \in RefreshArgs : RefreshCall(args)

ForceUnlock == \E args \in ForceAllArgs \cup ForceUidArgs : ForceUnlockCall(args)

Expire == \E interval \in Intervals : ExpireCall(interval)

\* One tick of the clock that Instant::now() reads: every record is one tick
\* older.
Tick ==
    /\ Running
    /\ lock_map' = [r \in DOMAIN lock_map |->
                        [j \in 1..Len(lock_map[r]) |->
                            [lock_map[r][j] EXCEPT !.age = IF @ < AgeCap THEN @ + 1 ELSE @]]]
    /\ UNCHANGED <<lock_uid, last>>

Next ==
    \/ Lock
    \/ Unlock
    \/ RLock
    \/ RUnlock
    \/ Refresh
    \/ ForceUnlock
    \/ Expire
    \/ Tick

Spec == Init /\ [][Next]_vars

(***************************************************************************)
(* Long batches and uids of different lengths: the same methods, called    *)
(* with a batch of LongBatchLen names and with a uid that is a prefix of   *)
(* the other uid, so that reverse-index positions beyond 9 are written.    *)
(***************************************************************************)
LongBatchLen == 11
LongBatch == [i \in 1..LongBatchLen |-> "a"] \o <<>>
LongRequesters == {[uid |-> "1", owner |-> "x"], [uid |-> "11", owner |-> "y"]}
LongUids == {rq.uid : rq \in LongRequesters}
SingleBatches == {<<"a">>, <<"b">>}

LongAcquireArgs ==
    {LockArgs(rs, rq.uid, rq.owner, q) :
        rs \in SingleBatches \cup {LongBatch}, rq \in LongRequesters, q \in Quorums}
LongReleaseArgs == {LockArgs(rs, uid, "", 0) : rs \in SingleBatches, uid \in LongUids}
LongRAcquireArgs ==
    {LockArgs(rs, rq.uid, rq.owner, q) :
        rs \in SingleBatches, rq \in LongRequesters, q \in Quorums}
LongRefreshArgs == {LockArgs(<<>>, uid, "", 0) : uid \in LongUids}
LongForceArgs ==
    {LockArgs(rs, "", "", 0) : rs \in SingleBatches}
       \cup {LockArgs(<<>>, uid, "", 0) : uid \in LongUids}

LongLock == \E args \in LongAcquireArgs : LockCall(args)

LongUnlock == \E args \in LongReleaseArgs : UnlockCall(args)

LongRLock == \E args \in LongRAcquireArgs : RLockCall(args)

LongRUnlock == \E args \in LongReleaseArgs : RUnlockCall(args)

LongRefresh == \E args \in LongRefreshArgs : RefreshCall(args)

LongForceUnlock == \E args \in LongForceArgs : ForceUnlockCall(args)

NextLong ==
    \/ LongLock
    \/ LongUnlock
    \/ LongRLock
    \/ LongRUnlock
    \/ LongRefresh
    \/ LongForceUnlock
    \/ Expire
    \/ Tick

SpecLong == Init /\ [][NextLong]_vars

(***************************************************************************)
(* Properties.                                                             *)
(***************************************************************************)
Holders(m, r) == IF r \in DOMAIN m THEN m[r] ELSE <<>>
Names(rs) == {rs[i] : i \in 1..Len(rs)}
HasHolder(m, r) == Holders(m, r) # <<>>

\* C1 (Invariant A, exclusivity): the holder sequence of every resource key
\* is exactly one writer record, or holds reader records only.
C1_Exclusivity ==
    \A r \in DOMAIN lock_map :
        \/ Len(lock_map[r]) = 1 /\ lock_map[r][1].writer
        \/ \A j \in 1..Len(lock_map[r]) : ~lock_map[r][j].writer

\* A table with a writer on one resource and two readers on another, the
\* last call being an rlock that was refused on the writer.
C1_Witness ==
    /\ last = Call("rlock", "false")
    /\ \E r \in DOMAIN lock_map : is_write_lock(lock_map[r])
    /\ \E r \in DOMAIN lock_map : Len(lock_map[r]) = 2 /\ ~lock_map[r][1].writer

\* C2 as stated: a lock call on a batch in which some resource has a holder
\* returns false and changes neither the lock table nor the reverse index.
C2_AsStated ==
    [][last'.op = "lock" =>
         \A args \in AcquireArgs :
            ((\E r \in Names(args.resources) : HasHolder(lock_map, r)) /\ LockCall(args))
            => (last'.ret = "false" /\ lock_map' = lock_map /\ lock_uid' = lock_uid)]_vars

\* C2 amended: a lock call on a batch of at most MAX_DELETE_LIST resources in
\* which some resource has a holder returns false and changes neither the
\* lock table nor the reverse index.
C2_AtomicBatch ==
    [][last'.op = "lock" =>
         \A args \in AcquireArgs :
            (/\ Len(args.resources) <= MAX_DELETE_LIST
             /\ \E r \in Names(args.resources) : HasHolder(lock_map, r)
             /\ LockCall(args))
            => (last'.ret = "false" /\ lock_map' = lock_map /\ lock_uid' = lock_uid)]_vars

\* A refused lock call has left one resource held and the other one absent.
C2_Witness ==
    /\ last = Call("lock", "false")
    /\ \E r \in Resources : HasHolder(lock_map, r)
    /\ \E r \in Resources : r \notin DOMAIN lock_map

Distinct(rs) == \A i, j \in 1..Len(rs) : rs[i] = rs[j] => i = j

\* C3, for a batch of pairwise distinct resources: a lock call on a batch of
\* at most MAX_DELETE_LIST resources none of which has a holder returns true,
\* and afterwards the resource at position i holds exactly one record, a
\* writer with the uid, owner and quorum of the call, idx = i and
\* group = (n > 1), and the reverse index maps (uid, i) to that resource.
C3_GrantEffect ==
    [][last'.op = "lock" =>
         \A args \in AcquireArgs :
            (/\ Len(args.resources) <= MAX_DELETE_LIST
             /\ Distinct(args.resources)
             /\ \A r \in Names(args.resources) : ~HasHolder(lock_map, r)
             /\ LockCall(args))
            => /\ last'.ret = "true"
               /\ \A i \in 1..Len(args.resources) :
                     LET r == args.resources[i]
                         key == format_uuid(args.uid, i - 1)
                     IN /\ Holders(lock_map', r) =
                              <<LockRequesterInfo(r, TRUE, args.uid, args.owner,
                                                  Len(args.resources) > 1, args.quorum,
                                                  i - 1)>>
                        /\ key \in DOMAIN lock_uid'
                        /\ lock_uid'[key] = r]_vars

\* C4 (Invariant C): the reverse index has an entry for (uid, idx) exactly
\* when a holder record with that uid and idx is in the lock table, and the
\* entry names the resource the record is stored under.
C4_ReverseIndex ==
    /\ \A r \in DOMAIN lock_map : \A j \in 1..Len(lock_map[r]) :
          LET key == format_uuid(lock_map[r][j].uid, lock_map[r][j].idx)
          IN key \in DOMAIN lock_uid /\ lock_uid[key] = r
    /\ \A key \in DOMAIN lock_uid :
          \E r \in DOMAIN lock_map : \E j \in 1..Len(lock_map[r]) :
              key = format_uuid(lock_map[r][j].uid, lock_map[r][j].idx)

\* C5 (Invariant B): no resource key of the lock table has an empty holder
\* sequence.
C5_NoEmptyEntries == \A r \in DOMAIN lock_map : lock_map[r] # <<>>

\* C6: every call returns to its caller, with a boolean or an error; none
\* panics.
C6_NoPanic == last.ret \in {"none", "true", "false", "err", "unit"}

\* C7: an unconditional force_unlock (empty uid) returns true and leaves no
\* named resource in the lock table and no reverse-index entry of a record it
\* held, so that a lock call on the named resources can be granted.
C7_ForceUnlockAll ==
    [][last'.op = "force_unlock" =>
         \A args \in ForceAllArgs :
            ForceUnlockCall(args)
            => /\ last'.ret = "true"
               /\ \A r \in Names(args.resources) :
                     /\ r \notin DOMAIN lock_map'
                     /\ \A j \in 1..Len(Holders(lock_map, r)) :
                           format_uuid(lock_map[r][j].uid, lock_map[r][j].idx)
                               \notin DOMAIN lock_uid'
               /\ can_take_lock(lock_map', args.resources)]_vars

\* C8: once the sweep has removed the last holder of a resource, the next
\* lock call on that resource is granted.
C8_ExpiredUnblocks ==
    [][(last.op = "expire" /\ last'.op = "lock") =>
         \A args \in AcquireArgs :
            (/\ Len(args.resources) = 1
             /\ ~HasHolder(lock_map, args.resources[1])
             /\ LockCall(args))
            => last'.ret = "true"]_vars

\* The state a granted lock call with these arguments started from, given
\* that the batch was free and the uid had no reverse-index entry.
BeforeLock(args) ==
    [lock_map |-> [r \in (DOMAIN lock_map) \ Names(args.resources) |-> lock_map[r]],
     lock_uid |-> [k \in (DOMAIN lock_uid) \
                            {format_uuid(args.uid, i - 1) : i \in 1..Len(args.resources)}
                   |-> lock_uid[k]]]

\* C9, for a non-empty batch: a lock call granted on free resources to a uid
\* that holds nothing, followed by unlock with the same resources, uid and
\* owner, returns true and restores the lock table and the reverse index.
C9_RoundTrip ==
    [][(last = Call("lock", "true") /\ last'.op = "unlock") =>
         \A args \in AcquireArgs :
            LET s0 == BeforeLock(args)
                granted == lock(s0.lock_map, s0.lock_uid, args)
            IN (/\ args.resources # <<>>
                /\ \A r \in DOMAIN s0.lock_map : \A j \in 1..Len(s0.lock_map[r]) :
                      s0.lock_map[r][j].uid # args.uid
                /\ granted.ret = "true"
                /\ granted.lock_map = lock_map
                /\ granted.lock_uid = lock_uid
                /\ UnlockCall(args))
               => /\ last'.ret = "true"
                  /\ lock_map' = s0.lock_map
                  /\ lock_uid' = s0.lock_uid]_vars

\* What C10 says of a release call: of every named resource exactly the
\* records that match uid and owner filter are removed, with their
\* reverse-index entries and no other, and the call returns true exactly
\* when a record was removed.
ReleaseEffect(args) ==
    LET named == Names(args.resources)
        gone == UNION {{format_uuid(lock_map[r][j].uid, lock_map[r][j].idx) :
                           j \in {k \in 1..Len(lock_map[r]) :
                                     release_match(lock_map[r][k], args)}} :
                       r \in named \cap DOMAIN lock_map}
    IN /\ \A r \in named :
             Holders(lock_map', r) =
                 SelectSeq(Holders(lock_map, r), LAMBDA lri : ~release_match(lri, args))
       /\ \A r \in named :
             (r \in DOMAIN lock_map /\ Holders(lock_map', r) = lock_map[r])
             => r \in DOMAIN lock_map'
       /\ lock_uid' = [k \in (DOMAIN lock_uid) \ gone |-> lock_uid[k]]
       /\ last'.ret = IF gone # {} THEN "true" ELSE "false"

\* C10, for unlock on exclusively held resources and runlock on a resource
\* that is not exclusively held: the call removes a holder record exactly
\* when its uid is the call's and the owner filter is empty or its owner,
\* leaves a record that does not match, its reverse-index entry and the
\* resource key as they are, and returns true exactly when it removed a
\* record.
C10_OwnerScopedRelease ==
    [][last'.op \in {"unlock", "runlock"} =>
         /\ \A args \in ReleaseArgs :
               (/\ Len(args.resources) <= MAX_DELETE_LIST
                /\ \A r \in Names(args.resources) : is_write_lock(Holders(lock_map, r))
                /\ UnlockCall(args))
               => ReleaseEffect(args)
         /\ \A args \in RReleaseArgs :
               (/\ Len(args.resources) = 1
                /\ HasHolder(lock_map, args.resources[1])
                /\ ~is_write_lock(Holders(lock_map, args.resources[1]))
                /\ RUnlockCall(args))
               => ReleaseEffect(args)]_vars

\* C11: rlock on exactly one resource that is free or held by readers only
\* returns true, appends one reader record (idx 0) of the call's uid behind
\* the readers already there and sets the reverse-index entry (uid, 0) to
\* the resource; on an exclusively held resource it returns false and
\* changes neither map.
C11_SharedAcquire ==
    [][last'.op = "rlock" =>
         \A args \in RAcquireArgs :
            (Len(args.resources) = 1 /\ RLockCall(args))
            => LET r == args.resources[1]
                   held == Holders(lock_map, r)
               IN IF Len(held) = 1 /\ held[1].writer
                  THEN last'.ret = "false" /\ lock_map' = lock_map /\ lock_uid' = lock_uid
                  ELSE /\ last'.ret = "true"
                       /\ DOMAIN lock_map' = (DOMAIN lock_map) \cup {r}
                       /\ \A x \in (DOMAIN lock_map) \ {r} : lock_map'[x] = lock_map[x]
                       /\ lock_map'[r] =
                             held \o <<[name |-> r, writer |-> FALSE, uid |-> args.uid,
                                        owner |-> args.owner, group |-> FALSE,
                                        quorum |-> args.quorum, idx |-> 0, age |-> 0]>>
                       /\ DOMAIN lock_uid' = (DOMAIN lock_uid) \cup {args.uid \o "0"}
                       /\ lock_uid'[args.uid \o "0"] = r
                       /\ \A k \in (DOMAIN lock_uid) \ {args.uid \o "0"} :
                             lock_uid'[k] = lock_uid[k]]_vars

\* A second requester has joined a reader, and an rlock on a writer-held
\* resource was refused.
C11_Witness ==
    /\ last.op = "rlock"
    /\ \E r \in DOMAIN lock_map :
          /\ Len(lock_map[r]) = 2
          /\ ~lock_map[r][1].writer /\ ~lock_map[r][2].writer
          /\ lock_map[r][1].uid # lock_map[r][2].uid
          /\ lock_map[r][1].age > lock_map[r][2].age
          /\ lock_uid[lock_map[r][2].uid \o "0"] = r

\* C12: an unlock whose batch names a resource that is in the table but not
\* exclusively held leaves that resource's holders alone and, after the
\* loop, returns an error.
C12_WrongHolderReported ==
    [][last'.op = "unlock" =>
         \A args \in ReleaseArgs :
            (/\ Len(args.resources) <= MAX_DELETE_LIST
             /\ \E r \in Names(args.resources) :
                   r \in DOMAIN lock_map /\ ~is_write_lock(lock_map[r])
             /\ UnlockCall(args))
            => (/\ last'.ret = "err"
                /\ \A r \in Names(args.resources) :
                      (r \in DOMAIN lock_map /\ ~is_write_lock(lock_map[r]))
                      => Holders(lock_map', r) = lock_map[r])]_vars

\* C13: lock and unlock of more than MAX_DELETE_LIST resources, rlock and
\* runlock of a resource count other than one, and runlock of an exclusively
\* held resource return an error and leave both maps unchanged.
C13_ContractViolations ==
    [][/\ last'.op = "lock" =>
            \A args \in AcquireArgs :
               (Len(args.resources) > MAX_DELETE_LIST /\ LockCall(args))
               => (last'.ret = "err" /\ lock_map' = lock_map /\ lock_uid' = lock_uid)
       /\ last'.op = "unlock" =>
            \A args \in ReleaseArgs :
               (Len(args.resources) > MAX_DELETE_LIST /\ UnlockCall(args))
               => (last'.ret = "err" /\ lock_map' = lock_map /\ lock_uid' = lock_uid)
       /\ last'.op = "rlock" =>
            \A args \in RAcquireArgs :
               (Len(args.resources) # 1 /\ RLockCall(args))
               => (last'.ret = "err" /\ lock_map' = lock_map /\ lock_uid' = lock_uid)
       /\ last'.op = "runlock" =>
            \A args \in RReleaseArgs :
               (/\ \/ Len(args.resources) # 1
                   \/ LET held == Holders(lock_map, args.resources[1])
                      IN Len(held) = 1 /\ held[1].writer
                /\ RUnlockCall(args))
               => (last'.ret = "err" /\ lock_map' = lock_map /\ lock_uid' = lock_uid)]_vars

\* A runlock by the writer's own uid was refused with an error while both
\* resources are held.
C13_Witness ==
    /\ last = Call("runlock", "err")
    /\ \E r \in DOMAIN lock_map : is_write_lock(lock_map[r])
    /\ \A r \in Resources : HasHolder(lock_map, r)

\* C14: expire_old_locks removes exactly the records last refreshed longer
\* ago than the interval, removes the reverse-index entry of each removed
\* record, leaves every other record and every other reverse-index entry as
\* it was, and returns no error.
C14_SweepExact ==
    [][last'.op = "expire" =>
         \A interval \in Intervals :
            ExpireCall(interval)
            => LET old == {<<r, j>> \in (DOMAIN lock_map) \X (1..(MaxReaders + 1)) :
                              j <= Len(lock_map[r]) /\ lock_map[r][j].age > interval}
                   keys == {lock_map[p[1]][p[2]].uid \o ToString(lock_map[p[1]][p[2]].idx) :
                               p \in old}
               IN /\ last'.ret = "unit"
                  /\ DOMAIN lock_map' \subseteq DOMAIN lock_map
                  /\ \A r \in DOMAIN lock_map :
                        Holders(lock_map', r) =
                           SelectSeq(lock_map[r], LAMBDA lri : lri.age <= interval)
                  /\ DOMAIN lock_uid' = (DOMAIN lock_uid) \ keys
                  /\ \A k \in DOMAIN lock_uid' : lock_uid'[k] = lock_uid[k]]_vars

\* A sweep has emptied one resource and left a fresh record, with its
\* reverse-index entry, on the other.
C14_Witness ==
    /\ last.op = "expire"
    /\ \E r \in DOMAIN lock_map : lock_map[r] = <<>>
    /\ \E r \in DOMAIN lock_map :
          /\ Len(lock_map[r]) >= 1
          /\ \A j \in 1..Len(lock_map[r]) :
                /\ lock_map[r][j].age = 0
                /\ (lock_map[r][j].uid \o ToString(lock_map[r][j].idx)) \in DOMAIN lock_uid

\* C15: refresh of a uid returns true whenever a record of that uid is in
\* the table, and false only when the uid holds nothing.  Stated for a
\* record that still has its own reverse-index entry.
C15_HeartbeatValidity ==
    [][last'.op = "refresh" =>
         \A args \in RefreshArgs :
            (/\ \E r \in DOMAIN lock_map : \E j \in 1..Len(lock_map[r]) :
                   LET key == args.uid \o ToString(lock_map[r][j].idx)
                   IN /\ lock_map[r][j].uid = args.uid
                      /\ key \in DOMAIN lock_uid
                      /\ lock_uid[key] = r
             /\ RefreshCall(args))
            => last'.ret = "true"]_vars

\* C16: force_unlock with a non-empty uid returns true exactly when the
\* reverse index has the entry (uid, 0); from each resource that the entries
\* (uid, 0), (uid, 1), ... up to the first missing one resolve to, it
\* removes every record matching the uid and the owner filter together with
\* the record's reverse-index entry, deletes every such resource left empty,
\* and leaves the other records and their reverse-index entries as they were.
C16_TargetedForceUnlock ==
    [][last'.op = "force_unlock" =>
         \A args \in ForceUidArgs :
            ForceUnlockCall(args)
            => LET walked == {i \in 0..Cardinality(DOMAIN lock_uid) :
                                 \A j \in 0..i : (args.uid \o ToString(j)) \in DOMAIN lock_uid}
                   resolved == {lock_uid[args.uid \o ToString(i)] : i \in walked}
                                  \cap DOMAIN lock_map
                   matches(lri) == /\ lri.uid = args.uid
                                   /\ (args.owner = "" \/ lri.owner = args.owner)
                   rest(r) == SelectSeq(lock_map[r], LAMBDA lri : ~matches(lri))
               IN /\ last'.ret = "true" <=> (args.uid \o "0") \in DOMAIN lock_uid
                  /\ DOMAIN lock_map' \subseteq DOMAIN lock_map
                  /\ \A r \in resolved :
                        /\ Holders(lock_map', r) = rest(r)
                        /\ rest(r) = <<>> => r \notin DOMAIN lock_map'
                        /\ \A j \in 1..Len(lock_map[r]) :
                              matches(lock_map[r][j])
                              => (args.uid \o ToString(lock_map[r][j].idx))
                                    \notin DOMAIN lock_uid'
                  /\ \A r \in (DOMAIN lock_map) \ resolved :
                        r \in DOMAIN lock_map' /\ lock_map'[r] = lock_map[r]
                  /\ DOMAIN lock_uid' \subseteq DOMAIN lock_uid
                  /\ \A k \in DOMAIN lock_uid' : lock_uid'[k] = lock_uid[k]
                  /\ \A r \in DOMAIN lock_map' : \A j \in 1..Len(lock_map'[r]) :
                        LET key == lock_map'[r][j].uid \o ToString(lock_map'[r][j].idx)
                        IN (/\ ~matches(lock_map'[r][j])
                            /\ key \in DOMAIN lock_uid
                            /\ lock_uid[key] = r)
                           => key \in DOMAIN lock_uid']_vars

\* A force_unlock of a uid has returned false, which the empty-uid mode
\* never does: the uid has no entry at position 0, although its record of
\* position 1 and that record's entry are still there, next to a record
\* and an entry of the other uid.
C16_Witness ==
    /\ last = Call("force_unlock", "false")
    /\ \E u \in Uids : \E r \in DOMAIN lock_map :
          /\ (u \o "0") \notin DOMAIN lock_uid
          /\ (u \o "1") \in DOMAIN lock_uid
          /\ lock_uid[u \o "1"] = r
          /\ Len(lock_map[r]) = 1
          /\ lock_map[r][1].uid = u
          /\ lock_map[r][1].idx = 1
          /\ \E v \in Uids \ {u} : \E x \in (DOMAIN lock_map) \ {r} :
                /\ (v \o "0") \in DOMAIN lock_uid
                /\ lock_uid[v \o "0"] = x
                /\ Len(lock_map[x]) = 1
                /\ lock_map[x][1].uid = v

\* C17: force_unlock with an empty uid whose named resources are all absent
\* returns true and changes neither map; and a second force_unlock with an
\* empty uid and the same resource list, applied to the state the first one
\* left, returns true and changes nothing.
C17_ForceUnlockIdempotent ==
    [][last'.op = "force_unlock" =>
         \A args \in ForceAllArgs :
            ForceUnlockCall(args)
            => LET again == force_unlock(lock_map', lock_uid', args)
               IN /\ last'.ret = "true"
                  /\ (\A r \in Names(args.resources) : r \notin DOMAIN lock_map)
                        => (lock_map' = lock_map /\ lock_uid' = lock_uid)
                  /\ again.ret = "true"
                  /\ again.lock_map = lock_map'
                  /\ again.lock_uid = lock_uid']_vars

\* A force_unlock with an empty uid has stripped the reverse index: both
\* resources are still held, by different uids, and no entry is left.
C17_Witness ==
    /\ last = Call("force_unlock", "true")
    /\ lock_uid = EmptyMap
    /\ DOMAIN lock_map = Resources
    /\ \A r \in Resources : Len(lock_map[r]) = 1 /\ lock_map[r][1].idx = 0
    /\ \E r, x \in Resources : lock_map[r][1].uid # lock_map[x][1].uid

\* C18: when the walk of refresh reaches the first position i whose indexed
\* resource is not in lock_map, it removes the reverse-index entry (uid, i),
\* removes no entry of an earlier position (whose resource is in lock_map),
\* and returns true exactly when i > 0.
C18_StaleCleanup ==
    [][last'.op = "refresh" =>
         \A args \in LongRefreshArgs :
            RefreshCall(args)
            => LET key(i) == args.uid \o ToString(i)
                   walked == {i \in 0..Cardinality(DOMAIN lock_uid) :
                                 \A j \in 0..i : key(j) \in DOMAIN lock_uid}
                   stale == {i \in walked :
                                /\ lock_uid[key(i)] \notin DOMAIN lock_map
                                /\ \A j \in 0..(i - 1) : lock_uid[key(j)] \in DOMAIN lock_map}
               IN \A i \in stale :
                     /\ key(i) \notin DOMAIN lock_uid'
                     /\ \A j \in 0..(i - 1) : key(j) \in DOMAIN lock_uid'
                     /\ last'.ret = "true" <=> i > 0]_vars

\* C19: refresh leaves lock_map as it was (no record added, removed or
\* re-stamped) and removes at most reverse-index entries of its own uid; a
\* record that was old enough for the sweep before the refresh is still old
\* enough after it.
C19_HeartbeatFrame ==
    [][last'.op = "refresh" =>
         \A args \in RefreshArgs :
            RefreshCall(args)
            => /\ lock_map' = lock_map
               /\ DOMAIN lock_uid' \subseteq DOMAIN lock_uid
               /\ \A k \in DOMAIN lock_uid' : lock_uid'[k] = lock_uid[k]
               /\ \A k \in (DOMAIN lock_uid) \ DOMAIN lock_uid' :
                     \E i \in 0..Cardinality(DOMAIN lock_uid) : k = args.uid \o ToString(i)
               /\ \A interval \in Intervals : \A r \in DOMAIN lock_map :
                     \A j \in 1..Len(lock_map[r]) :
                        lock_map[r][j].age > interval
                        => /\ r \in DOMAIN lock_map'
                           /\ j <= Len(lock_map'[r])
                           /\ lock_map'[r][j].age > interval]_vars

\* A refresh has returned true while every uid holds a record that is past
\* the interval and still has its reverse-index entry.
C19_Witness ==
    /\ last = Call("refresh", "true")
    /\ \A u \in Uids : \E r \in DOMAIN lock_map :
          /\ (u \o "0") \in DOMAIN lock_uid
          /\ lock_uid[u \o "0"] = r
          /\ Len(lock_map[r]) = 1
          /\ lock_map[r][1].uid = u
          /\ \E interval \in Intervals : lock_map[r][1].age > interval

\* C20: reverse-index keys are injective: two records of different
\* (uid, idx) pairs have different keys, so neither requester's calls can
\* overwrite or remove the other's entry.
C20_InjectiveKeys ==
    \A r, x \in DOMAIN lock_map :
       \A j \in 1..Len(lock_map[r]) : \A k \in 1..Len(lock_map[x]) :
          <<lock_map[r][j].uid, lock_map[r][j].idx>>
             # <<lock_map[x][k].uid, lock_map[x][k].idx>>
          => format_uuid(lock_map[r][j].uid, lock_map[r][j].idx)
                # format_uuid(lock_map[x][k].uid, lock_map[x][k].idx)
====
